---- MODULE Spec2Model ----
(***************************************************************************)
(* Read-only analytics API over the mental_health_responses table:         *)
(*   src/modules/items/routes/analytics.py  (distribution, top-words,      *)
(*                                           length-stats, examples)       *)
(*   src/modules/items/routes/readItem.py   (responses, responses/{id})    *)
(*                                                                         *)
(* A text is a sequence of one-character strings, so that strip, split,    *)
(* lower and the \w+ scan are computed character by character.  A Python   *)
(* dict (and Counter) is a sequence of [key, val] entries in insertion     *)
(* order, which is the order Python iterates and serialises it in.         *)
(***************************************************************************)
EXTENDS Integers, Sequences, FiniteSets, TLC

VARIABLES db, resp

vars == <<db, resp>>

(***************************************************************************)
(* Bounds of the model.                                                    *)
(***************************************************************************)
\* Largest number of rows the table holds.
MaxRows == 3

(***************************************************************************)
(* Characters and strings.                                                 *)
(***************************************************************************)
\* SQL NULL / Python None: a value that is no string over any alphabet.
None == <<"None">>

\* The empty string.
Empty == <<>>

UpperLetters == <<"A","B","C","D","E","F","G","H","I","J","K","L","M",
                  "N","O","P","Q","R","S","T","U","V","W","X","Y","Z">>

LowerLetters == <<"a","b","c","d","e","f","g","h","i","j","k","l","m",
                  "n","o","p","q","r","s","t","u","v","w","x","y","z">>

Digits == {"0","1","2","3","4","5","6","7","8","9"}

\* What str.strip() removes and str.split() splits on.
Whitespace == {" ", "\t", "\n"}

\* The class \w of the regular expression.
WordChars == {UpperLetters[i] : i \in 1..26} \cup {LowerLetters[i] : i \in 1..26}
             \cup Digits \cup {"_"}

\* str.lower(), one character.
LowerChar(c) ==
    IF \E i \in 1..26 : UpperLetters[i] = c
    THEN LowerLetters[CHOOSE i \in 1..26 : UpperLetters[i] = c]
    ELSE c

\* text.lower()
Lower(text) == [i \in 1..Len(text) |-> LowerChar(text[i])]

\* status.strip(): the text between its first and its last non-whitespace
\* character, empty when there is none.
Strip(text) ==
    LET inked == {i \in 1..Len(text) : text[i] \notin Whitespace}
    IN  IF inked = {} THEN Empty
        ELSE SubSeq(text, CHOOSE i \in inked : \A j \in inked : i <= j,
                          CHOOSE i \in inked : \A j \in inked : j <= i)

\* Two adjacent lists of runs, the last run of the left one continuing into
\* the first run of the right one when `glue`.
JoinRuns(L, R, glue) ==
    IF glue /\ L # <<>> /\ R # <<>>
    THEN SubSeq(L, 1, Len(L) - 1) \o << L[Len(L)] \o R[1] >> \o Tail(R)
    ELSE L \o R

\* The maximal runs in text[lo..hi], in order, of the characters c with
\* (c \in class) = inside.  (Halving keeps the evaluation depth logarithmic
\* in the text's length.)
RECURSIVE RunsIn(_, _, _, _, _)
RunsIn(text, lo, hi, class, inside) ==
    IF lo > hi THEN <<>>
    ELSE IF lo = hi
         THEN (IF (text[lo] \in class) = inside THEN << <<text[lo]>> >> ELSE <<>>)
         ELSE JoinRuns(RunsIn(text, lo, (lo + hi) \div 2, class, inside),
                       RunsIn(text, (lo + hi) \div 2 + 1, hi, class, inside),
                       /\ (text[(lo + hi) \div 2] \in class) = inside
                       /\ (text[(lo + hi) \div 2 + 1] \in class) = inside)

\* text.split(): the maximal runs of non-whitespace characters.
Split(text) == RunsIn(text, 1, Len(text), Whitespace, FALSE)

\* WORD_RE = re.compile(r"\b\w+\b"); WORD_RE.findall(text): the maximal
\* runs of word characters.
WORD_RE_findall(text) == RunsIn(text, 1, Len(text), WordChars, TRUE)

\* `x or ""`
OrEmpty(x) == IF x = None THEN Empty ELSE x

\* The stopword list.
STOPWORDS == {
    <<"i">>, <<"m","e">>, <<"m","y">>, <<"m","y","s","e","l","f">>, <<"w","e">>, <<"o","u","r">>, <<"o","u","r","s">>, <<"o","u","r","s","e","l","v","e","s">>,
    <<"y","o","u">>, <<"y","o","u","r">>, <<"y","o","u","r","s">>, <<"y","o","u","r","s","e","l","f">>, <<"y","o","u","r","s","e","l","v","e","s">>,
    <<"h","e">>, <<"h","i","m">>, <<"h","i","s">>, <<"h","i","m","s","e","l","f">>,
    <<"s","h","e">>, <<"h","e","r">>, <<"h","e","r","s">>, <<"h","e","r","s","e","l","f">>,
    <<"i","t">>, <<"i","t","s">>, <<"i","t","s","e","l","f">>,
    <<"t","h","e","y">>, <<"t","h","e","m">>, <<"t","h","e","i","r">>, <<"t","h","e","i","r","s">>, <<"t","h","e","m","s","e","l","v","e","s">>,
    <<"w","h","a","t">>, <<"w","h","i","c","h">>, <<"w","h","o">>, <<"w","h","o","m">>,
    <<"t","h","i","s">>, <<"t","h","a","t">>, <<"t","h","e","s","e">>, <<"t","h","o","s","e">>,
    <<"a","m">>, <<"i","s">>, <<"a","r","e">>, <<"w","a","s">>, <<"w","e","r","e">>, <<"b","e">>, <<"b","e","e","n">>, <<"b","e","i","n","g">>,
    <<"h","a","v","e">>, <<"h","a","s">>, <<"h","a","d">>, <<"h","a","v","i","n","g">>,
    <<"d","o">>, <<"d","o","e","s">>, <<"d","i","d">>, <<"d","o","i","n","g">>,
    <<"a">>, <<"a","n">>, <<"t","h","e">>,
    <<"a","n","d">>, <<"b","u","t">>, <<"i","f">>, <<"o","r">>, <<"b","e","c","a","u","s","e">>, <<"a","s">>, <<"u","n","t","i","l">>, <<"w","h","i","l","e">>,
    <<"o","f">>, <<"a","t">>, <<"b","y">>, <<"f","o","r">>, <<"w","i","t","h">>, <<"a","b","o","u","t">>, <<"a","g","a","i","n","s","t">>,
    <<"b","e","t","w","e","e","n">>, <<"i","n","t","o">>, <<"t","h","r","o","u","g","h">>, <<"d","u","r","i","n","g">>, <<"b","e","f","o","r","e">>, <<"a","f","t","e","r">>,
    <<"a","b","o","v","e">>, <<"b","e","l","o","w">>, <<"t","o">>, <<"f","r","o","m">>, <<"u","p">>, <<"d","o","w","n">>, <<"i","n">>, <<"o","u","t">>,
    <<"o","n">>, <<"o","f","f">>, <<"o","v","e","r">>, <<"u","n","d","e","r">>,
    <<"a","g","a","i","n">>, <<"f","u","r","t","h","e","r">>, <<"t","h","e","n">>, <<"o","n","c","e">>,
    <<"h","e","r","e">>, <<"t","h","e","r","e">>, <<"w","h","e","n">>, <<"w","h","e","r","e">>, <<"w","h","y">>, <<"h","o","w">>,
    <<"a","l","l">>, <<"a","n","y">>, <<"b","o","t","h">>, <<"e","a","c","h">>, <<"f","e","w">>, <<"m","o","r","e">>, <<"m","o","s","t">>, <<"o","t","h","e","r">>,
    <<"s","o","m","e">>, <<"s","u","c","h">>, <<"n","o">>, <<"n","o","r">>, <<"n","o","t">>, <<"o","n","l","y">>, <<"o","w","n">>,
    <<"s","a","m","e">>, <<"s","o">>, <<"t","h","a","n">>, <<"t","o","o">>, <<"v","e","r","y">>,
    <<"c","a","n">>, <<"w","i","l","l">>, <<"j","u","s","t">>, <<"s","h","o","u","l","d">>, <<"n","o","w">>
}


(***************************************************************************)
(* Python containers.                                                      *)
(***************************************************************************)
\* dict.keys()
DictKeys(d) == {d[i].key : i \in 1..Len(d)}

\* d[k], for a key of d
DictGet(d, k) == d[CHOOSE i \in 1..Len(d) : d[i].key = k].val

\* d[k] = v: a present key keeps its place, a new key goes last.
DictSet(d, k, v) ==
    IF k \in DictKeys(d)
    THEN [d EXCEPT ![CHOOSE i \in 1..Len(d) : d[i].key = k].val = v]
    ELSE Append(d, [key |-> k, val |-> v])

\* d.setdefault(k, []).append(x), and defaultdict(list)[k].append(x)
DictAppend(d, k, x) ==
    DictSet(d, k, Append(IF k \in DictKeys(d) THEN DictGet(d, k) ELSE <<>>, x))

\* Counter.update(words): one more occurrence of each word, in order.
RECURSIVE CounterUpdate(_, _, _)
CounterUpdate(counter, words, i) ==
    IF i > Len(words) THEN counter
    ELSE CounterUpdate(
            DictSet(counter, words[i],
                    (IF words[i] \in DictKeys(counter)
                     THEN DictGet(counter, words[i]) ELSE 0) + 1),
            words, i + 1)

\* A variant that is not stable: e goes ahead of the entries of equal val.
InsertDescendingUnstable(sorted, e) ==
    LET ahead == Cardinality({i \in 1..Len(sorted) : sorted[i].val > e.val})
    IN  SubSeq(sorted, 1, ahead) \o <<e>> \o SubSeq(sorted, ahead + 1, Len(sorted))

\* One step of a stable descending sort by val: e goes after every entry
\* whose val is at least its own.
InsertDescending(sorted, e) ==
    LET ahead == Cardinality({i \in 1..Len(sorted) : sorted[i].val >= e.val})
    IN  SubSeq(sorted, 1, ahead) \o <<e>> \o SubSeq(sorted, ahead + 1, Len(sorted))

RECURSIVE SortedDescending(_, _, _)
SortedDescending(items, i, sorted) ==
    IF i > Len(items) THEN sorted
    ELSE SortedDescending(items, i + 1, InsertDescending(sorted, items[i]))

\* Counter.most_common(n) = heapq.nlargest(n, items, key=count), which is
\* sorted(items, key=count, reverse=True)[:n]: a stable sort, so entries of
\* equal count stay in the counter's insertion order.
most_common(counter, n) ==
    LET sorted == SortedDescending(counter, 1, <<>>)
    IN  SubSeq(sorted, 1, IF n < Len(sorted) THEN n ELSE Len(sorted))

\* One step of an ascending sort of integers.
InsertAscending(sorted, x) ==
    LET ahead == Cardinality({i \in 1..Len(sorted) : sorted[i] <= x})
    IN  SubSeq(sorted, 1, ahead) \o <<x>> \o SubSeq(sorted, ahead + 1, Len(sorted))

\* sorted(lengths)
RECURSIVE SortedAscending(_, _, _)
SortedAscending(xs, i, sorted) ==
    IF i > Len(xs) THEN sorted
    ELSE SortedAscending(xs, i + 1, InsertAscending(sorted, xs[i]))

\* round(num / den, 2) as a number of hundredths, ties to the even one.
Round2(num, den) ==
    LET q == (num * 100) \div den
        r == (num * 100) % den
    IN  IF 2 * r > den \/ (2 * r = den /\ q % 2 = 1) THEN q + 1 ELSE q

(***************************************************************************)
(* The store: table mental_health_responses, primary key id.  The column   *)
(* `statement` is read by no handler and is left out.                      *)
(***************************************************************************)
\* Every order in which the store may return the rows of a set.
Orderings(S) ==
    {f \in [1..Cardinality(S) -> S] :
        \A i, j \in 1..Cardinality(S) : i # j => f[i] # f[j]}

\* .order_by(MentalHealthResponse.id)
OrderById(S) ==
    [i \in 1..Cardinality(S) |->
        CHOOSE r \in S : Cardinality({q \in S : q.id < r.id}) = i - 1]

\* .offset(skip).limit(limit)
OffsetLimit(rows, skip, limit) ==
    SubSeq(rows, skip + 1, IF skip + limit < Len(rows) THEN skip + limit ELSE Len(rows))

\* SELECT status, count(id) ... WHERE status IS NOT NULL AND status != ''
\* GROUP BY status: one row per distinct stored status.
DistributionGroups(table) ==
    {[status |-> s, count |-> Cardinality({r \in table : r.status = s})] :
        s \in {r.status : r \in table} \ {None, Empty}}

\* WHERE status IS NOT NULL AND status != '' AND clean_statement IS NOT NULL
\* AND clean_statement != ''
TextRecords(table) ==
    {r \in table : /\ r.status # None
                   /\ r.status # Empty
                   /\ r.clean_statement # None
                   /\ r.clean_statement # Empty}

\* The selected columns (status, clean_statement) of rows in a given order.
StatusTextRows(records) ==
    [i \in 1..Len(records) |->
        [status |-> records[i].status, clean_statement |-> records[i].clean_statement]]

\* A variant that matches the status after trimming it.
ExampleRecordsNormalized(table, status) ==
    {r \in table : /\ r.status # None
                   /\ Strip(r.status) = Strip(status)
                   /\ r.clean_statement # None
                   /\ r.clean_statement # Empty}

\* WHERE status = :status AND clean_statement IS NOT NULL AND
\* clean_statement != ''
ExampleRecords(table, status) ==
    {r \in table : /\ r.status = status
                   /\ r.clean_statement # None
                   /\ r.clean_statement # Empty}

(***************************************************************************)
(* 1. sentiment_distribution                                               *)
(***************************************************************************)
RECURSIVE distribution_loop(_, _, _)
distribution_loop(rows, i, result) ==
    IF i > Len(rows) THEN result
    ELSE LET status_norm == Strip(rows[i].status)
         IN  IF status_norm = Empty
             THEN distribution_loop(rows, i + 1, result)
             ELSE distribution_loop(rows, i + 1,
                                    DictSet(result, status_norm, rows[i].count))

\* A variant that keys the result by the stored status, untrimmed.
RECURSIVE unstripped_loop(_, _, _)
unstripped_loop(rows, i, result) ==
    IF i > Len(rows) THEN result
    ELSE unstripped_loop(rows, i + 1, DictSet(result, rows[i].status, rows[i].count))

sentiment_distribution_unstripped(rows) == unstripped_loop(rows, 1, <<>>)

sentiment_distribution(rows) == distribution_loop(rows, 1, <<>>)

(***************************************************************************)
(* 2. top_words_per_category                                               *)
(***************************************************************************)
\* A variant that keeps short words.
KeepWordAnyLength(w) == w \notin STOPWORDS

\* The test of the list comprehension.
KeepWord(w) == w \notin STOPWORDS /\ Len(w) > 2

\* [w for w in words if w not in STOPWORDS and len(w) > 2]
FilterWords(words) == SelectSeq(words, KeepWord)

\* texts_by_status.setdefault(status_norm, []).append(clean_text or "")
RECURSIVE texts_by_status(_, _, _)
texts_by_status(rows, i, grouped) ==
    IF i > Len(rows) THEN grouped
    ELSE LET status_norm == Strip(rows[i].status)
         IN  IF status_norm = Empty
             THEN texts_by_status(rows, i + 1, grouped)
             ELSE texts_by_status(rows, i + 1,
                     DictAppend(grouped, status_norm, OrEmpty(rows[i].clean_statement)))

\* The Counter of one category after counter.update over all its texts.
RECURSIVE count_words(_, _, _)
count_words(texts, i, counter) ==
    IF i > Len(texts) THEN counter
    ELSE count_words(texts, i + 1,
            CounterUpdate(counter, FilterWords(WORD_RE_findall(Lower(texts[i]))), 1))

\* [WordFrequency(word=w, freq=int(c)) for w, c in most_common]
WordFrequencies(common) ==
    [i \in 1..Len(common) |-> [word |-> common[i].key, freq |-> common[i].val]]

HasWords(entry) == entry.val # <<>>

\* A variant that leaves out a category whose word list is empty.
top_words_nonempty(rows, top_n) ==
    LET grouped == texts_by_status(rows, 1, <<>>)
    IN  SelectSeq(
            [i \in 1..Len(grouped) |->
                [key |-> grouped[i].key,
                 val |-> WordFrequencies(
                            most_common(count_words(grouped[i].val, 1, <<>>), top_n))]],
            HasWords)

top_words_per_category(rows, top_n) ==
    LET grouped == texts_by_status(rows, 1, <<>>)
    IN  [i \in 1..Len(grouped) |->
            [key |-> grouped[i].key,
             val |-> WordFrequencies(
                        most_common(count_words(grouped[i].val, 1, <<>>), top_n))]]

(***************************************************************************)
(* 3. length_stats_per_category                                            *)
(***************************************************************************)
\* The outlier threshold of `n_words > 400`.
OutlierThreshold == 400

\* A variant that also drops a text of exactly the threshold's length.
IsOutlierInclusive(n_words) == n_words = 0 \/ n_words >= OutlierThreshold

\* if n_words == 0 or n_words > 400: continue
IsOutlier(n_words) == n_words = 0 \/ n_words > OutlierThreshold

RECURSIVE lengths_by_status(_, _, _)
lengths_by_status(rows, i, grouped) ==
    IF i > Len(rows) THEN grouped
    ELSE LET status_norm == Strip(rows[i].status)
             n_words == Len(Split(OrEmpty(rows[i].clean_statement)))
         IN  IF status_norm = Empty
             THEN lengths_by_status(rows, i + 1, grouped)
             ELSE IF IsOutlier(n_words)
                  THEN lengths_by_status(rows, i + 1, grouped)
                  ELSE lengths_by_status(rows, i + 1,
                                         DictAppend(grouped, status_norm, n_words))

\* A variant that takes the upper middle element of an even-sized list.
median_of_upper_middle(lengths) ==
    [num |-> SortedAscending(lengths, 1, <<>>)[Len(lengths) \div 2 + 1], den |-> 1]

\* The median of a non-empty list as a fraction num / den.
median_of(lengths) ==
    LET lengths_sorted == SortedAscending(lengths, 1, <<>>)
        m == Len(lengths_sorted)
        mid == m \div 2
    IN  IF m % 2 = 1
        THEN [num |-> lengths_sorted[mid + 1], den |-> 1]
        ELSE [num |-> lengths_sorted[mid] + lengths_sorted[mid + 1], den |-> 2]

\* result[status] = round(float(median), 2), in hundredths; a category
\* with no lengths is skipped.
RECURSIVE median_loop(_, _, _)
median_loop(grouped, i, result) ==
    IF i > Len(grouped) THEN result
    ELSE IF grouped[i].val = <<>>
         THEN median_loop(grouped, i + 1, result)
         ELSE median_loop(grouped, i + 1,
                 DictSet(result, grouped[i].key,
                         Round2(median_of(grouped[i].val).num,
                                median_of(grouped[i].val).den)))

length_stats_per_category(rows) ==
    median_loop(lengths_by_status(rows, 1, <<>>), 1, <<>>)

(***************************************************************************)
(* 4. examples_by_category                                                 *)
(***************************************************************************)
\* [txt for (txt,) in rows if txt]
Truthy(txt) == txt # None /\ txt # Empty

examples_by_category(rows) ==
    SelectSeq([i \in 1..Len(rows) |-> rows[i].clean_statement], Truthy)

(***************************************************************************)
(* readItem.py                                                             *)
(***************************************************************************)
HTTP_404_NOT_FOUND == 404

DigitChars == <<"0","1","2","3","4","5","6","7","8","9">>

\* str(n) of a natural number.
RECURSIVE DecimalNat(_)
DecimalNat(n) ==
    IF n < 10 THEN <<DigitChars[n + 1]>>
    ELSE DecimalNat(n \div 10) \o <<DigitChars[(n % 10) + 1]>>

\* The {response_id} of the f-string: str(n).
Decimal(n) == IF n < 0 THEN <<"-">> \o DecimalNat(-n) ELSE DecimalNat(n)

\* "Response dengan id="
DetailPrefix == <<"R","e","s","p","o","n","s","e"," ","d","e","n","g","a","n"," ","i","d","=">>

\* " tidak ditemukan."
DetailSuffix == <<" ","t","i","d","a","k"," ","d","i","t","e","m","u","k","a","n",".">>

\* A variant that forgets the filter on the id.
read_first_response(table, response_id) ==
    IF table = {}
    THEN [kind |-> "HTTPException",
          status_code |-> HTTP_404_NOT_FOUND,
          detail |-> DetailPrefix \o Decimal(response_id) \o DetailSuffix]
    ELSE [kind |-> "return", obj |-> CHOOSE r \in table : \A q \in table : r.id <= q.id]

\* .filter(id == response_id).first(), then the 404 or the object.
read_response_by_id(table, response_id) ==
    LET found == {r \in table : r.id = response_id}
    IN  IF found = {}
        THEN [kind |-> "HTTPException",
              status_code |-> HTTP_404_NOT_FOUND,
              detail |-> DetailPrefix \o Decimal(response_id) \o DetailSuffix]
        ELSE [kind |-> "return", obj |-> CHOOSE r \in found : TRUE]

read_all_responses(table, skip, limit) ==
    OffsetLimit(OrderById(table), skip, limit)



(***************************************************************************)
(* The data the model draws from.                                          *)
(***************************************************************************)
\* Stored status values: a category, the same category padded with
\* whitespace, a second category, and a status of whitespace only.
StatusA == <<"A">>

StatusAPadded == <<" ","A"," ">>

StatusB == <<"B">>

StatusBlank == <<" ">>

\* A status no row stores.
StatusAbsent == <<"a">>

\* "anxiety panic anxiety"
TextAnxiety == <<"a","n","x","i","e","t","y"," ","p","a","n","i","c"," ","a","n","x","i","e","t","y">>

\* "panic worry"
TextPanic == <<"p","a","n","i","c"," ","w","o","r","r","y">>

\* "Well-Being is hard ok"
TextWellBeing == <<"W","e","l","l","-","B","e","i","n","g"," ","i","s"," ","h","a","r","d"," ","o","k">>

\* "the"
TextThe == <<"t","h","e">>

\* " "
TextBlank == <<" ">>

\* n one-letter words separated by single spaces.
Words(n) == [i \in 1..(2 * n - 1) |-> IF i % 2 = 1 THEN "w" ELSE " "]

\* The rows the ingestion process may add (status, clean_statement).
Pool ==
    { <<StatusA, TextAnxiety>>, <<StatusAPadded, TextPanic>>,
      <<StatusB, TextThe>>, <<StatusB, TextWellBeing>>,
      <<None, TextPanic>>, <<Empty, TextPanic>>, <<StatusBlank, TextPanic>>,
      <<StatusA, None>>, <<StatusA, Empty>>, <<StatusB, TextBlank>> }

\* Rows with texts at and around the outlier threshold.
LongPool ==
    { <<StatusA, Words(OutlierThreshold)>>, <<StatusA, Words(OutlierThreshold + 1)>>,
      <<StatusB, TextBlank>>, <<StatusAPadded, TextThe>> }

\* Values of the query parameters: top_n and n (1..50), skip (>= 0),
\* limit (1..100), status, response_id.
TopNs == {1, 2, 50}

Skips == {0, 1}

Limits == {1, 2, 100}

Statuses == {StatusA, StatusAPadded, StatusB, Empty, StatusAbsent}

\* Ids of rows, the next id, and ids no row has.
Ids == {-1, 10} \cup 1..(MaxRows + 1)

(***************************************************************************)
(* State: the table, and the response to the request last served.          *)
(***************************************************************************)
NoResponse == [op |-> "none", params |-> <<>>, rows |-> <<>>, result |-> <<>>]

Init ==
    /\ db = {}
    /\ resp = NoResponse

\* No response is outstanding.
Idle == resp.op = "none"

\* The response outstanding is the one to this very request.
Served(op, params) == resp.op = op /\ resp.params = params

\* The external ingestion process adds a row under the next id.
Insert(row) ==
    /\ Idle
    /\ Cardinality(db) < MaxRows
    /\ db' = db \cup {[id |-> Cardinality(db) + 1,
                       status |-> row[1], clean_statement |-> row[2]]}
    /\ UNCHANGED resp

Ingest == \E row \in Pool : Insert(row)

IngestLong == \E row \in LongPool : Insert(row)

\* GET /mental-health/analytics/distribution
GetDistribution ==
    /\ \E rows \in Orderings(DistributionGroups(db)) :
          resp' = [op |-> "distribution", params |-> <<>>, rows |-> rows,
                   result |-> sentiment_distribution(rows)]
    /\ UNCHANGED db

\* GET /mental-health/analytics/top-words?top_n=
GetTopWords(top_n) ==
    /\ \E records \in Orderings(TextRecords(db)) :
          resp' = [op |-> "top_words", params |-> <<top_n>>,
                   rows |-> StatusTextRows(records),
                   result |-> top_words_per_category(StatusTextRows(records), top_n)]
    /\ UNCHANGED db

\* GET /mental-health/analytics/length-stats
GetLengthStats ==
    /\ \E records \in Orderings(TextRecords(db)) :
          resp' = [op |-> "length_stats", params |-> <<>>,
                   rows |-> StatusTextRows(records),
                   result |-> length_stats_per_category(StatusTextRows(records))]
    /\ UNCHANGED db

\* GET /mental-health/analytics/examples?status=&n=
\* .filter(...).order_by(id).limit(n).all()
GetExamples(status, n) ==
    /\ LET rows == OffsetLimit(OrderById(ExampleRecords(db, status)), 0, n)
       IN  resp' = [op |-> "examples", params |-> <<status, n>>, rows |-> rows,
                    result |-> examples_by_category(rows)]
    /\ UNCHANGED db

\* GET /mental-health/responses?skip=&limit=
GetResponses(skip, limit) ==
    /\ resp' = [op |-> "responses", params |-> <<skip, limit>>, rows |-> <<>>,
                result |-> read_all_responses(db, skip, limit)]
    /\ UNCHANGED db

\* GET /mental-health/responses/{response_id}
GetResponseById(response_id) ==
    /\ resp' = [op |-> "response_by_id", params |-> <<response_id>>, rows |-> <<>>,
                result |-> read_response_by_id(db, response_id)]
    /\ UNCHANGED db

\* The client has taken the response.
Done ==
    /\ ~Idle
    /\ resp' = NoResponse
    /\ UNCHANGED db

\* Requests served one at a time, each from the idle state.
ServeDistribution == Idle /\ GetDistribution

ServeTopWords == \E top_n \in TopNs : Idle /\ GetTopWords(top_n)

ServeLengthStats == Idle /\ GetLengthStats

ServeExamples == \E status \in Statuses, n \in TopNs : Idle /\ GetExamples(status, n)

ServeResponses == \E skip \in Skips, limit \in Limits : Idle /\ GetResponses(skip, limit)

ServeResponseById == \E response_id \in Ids : Idle /\ GetResponseById(response_id)

Next ==
    \/ Ingest
    \/ ServeDistribution
    \/ ServeTopWords
    \/ ServeLengthStats
    \/ ServeExamples
    \/ ServeResponses
    \/ ServeResponseById
    \/ Done

Spec == Init /\ [][Next]_vars

\* The table filled with long texts, and the length statistics over it.
NextLong ==
    \/ IngestLong
    \/ ServeLengthStats
    \/ Done

SpecLong == Init /\ [][NextLong]_vars

\* The client sends again the request it has the response to.
RepeatDistribution == Served("distribution", <<>>) /\ GetDistribution

RepeatTopWords == \E top_n \in TopNs : Served("top_words", <<top_n>>) /\ GetTopWords(top_n)

RepeatLengthStats == Served("length_stats", <<>>) /\ GetLengthStats

RepeatExamples ==
    \E status \in Statuses, n \in TopNs :
        Served("examples", <<status, n>>) /\ GetExamples(status, n)

RepeatResponses ==
    \E skip \in Skips, limit \in Limits :
        Served("responses", <<skip, limit>>) /\ GetResponses(skip, limit)

RepeatResponseById ==
    \E response_id \in Ids :
        Served("response_by_id", <<response_id>>) /\ GetResponseById(response_id)

NextRepeat ==
    \/ Next
    \/ RepeatDistribution
    \/ RepeatTopWords
    \/ RepeatLengthStats
    \/ RepeatExamples
    \/ RepeatResponses
    \/ RepeatResponseById

SpecRepeat == Init /\ [][NextRepeat]_vars

(***************************************************************************)
(* What the properties are stated in: the table and the rows a handler     *)
(* received, read without the handlers' own loops.                         *)
(***************************************************************************)
Min(a, b) == IF a < b THEN a ELSE b

\* The category of a stored status: trimmed; None has none.
Category(status) == IF status = None THEN Empty ELSE Strip(status)

\* The number of whitespace-delimited words of a text: its word starts.
WordCount(text) ==
    Cardinality({i \in 1..Len(text) :
                    /\ text[i] \notin Whitespace
                    /\ (i = 1 \/ text[i - 1] \in Whitespace)})

\* Two dicts hold the same mapping, whatever the order of their entries.
SameMapping(d, e) ==
    /\ DictKeys(d) = DictKeys(e)
    /\ \A k \in DictKeys(d) : DictGet(d, k) = DictGet(e, k)

\* No key twice.
IsDict(d) == \A i, j \in 1..Len(d) : d[i].key = d[j].key => i = j

IsAggregate(op) == op \in {"distribution", "top_words", "length_stats"}

(***************************************************************************)
(* C1.  sentiment_distribution returns the mapping whose keys are exactly  *)
(* the non-empty trimmed status values and whose value for each key is the *)
(* number of records whose status trims to it: the counts of raw statuses  *)
(* that trim to the same key are summed.                                   *)
(***************************************************************************)
C1_DistributionSumsMergedCounts ==
    resp.op = "distribution" =>
        /\ DictKeys(resp.result) = {Category(r.status) : r \in db} \ {Empty}
        /\ \A s \in DictKeys(resp.result) :
              DictGet(resp.result, s) = Cardinality({r \in db : Category(r.status) = s})

(***************************************************************************)
(* C2.  For every category and top_n, top_words_per_category returns the   *)
(* first top_n entries of one occurrence count over all the category's     *)
(* texts, by count descending; at most top_n entries, each freq the word's *)
(* total over the whole group, equal counts in first-encountered order.    *)
(***************************************************************************)
\* The positions of a word list that hold a word to keep: no stopword,
\* and longer than two characters.
KeptPositions(words) ==
    {j \in 1..Len(words) : words[j] \notin STOPWORDS /\ Len(words[j]) > 2}

\* The words at the positions J, in the order of the positions.
WordsAt(words, J) ==
    [k \in 1..Cardinality(J) |->
        words[CHOOSE j \in J : Cardinality({x \in J : x < j}) = k - 1]]

\* The words of a word list that are kept, in their order.
KeptOf(words) == WordsAt(words, KeptPositions(words))

\* The kept words of a text, lowercased.
KeptWords(text) == KeptOf(WORD_RE_findall(Lower(text)))

\* The kept words of all the texts of category c, in the order of the rows.
RECURSIVE WordStream(_, _, _)
WordStream(rows, c, i) ==
    IF i > Len(rows) THEN <<>>
    ELSE (IF Category(rows[i].status) = c
          THEN KeptWords(rows[i].clean_statement) ELSE <<>>)
         \o WordStream(rows, c, i + 1)

Frequency(stream, w) == Cardinality({k \in 1..Len(stream) : stream[k] = w})

FirstMet(stream, w) == CHOOSE k \in 1..Len(stream) : stream[k] = w /\ \A l \in 1..(k - 1) : stream[l] # w

\* u comes before v: more occurrences, or as many and met first.
RanksBefore(stream, u, v) ==
    \/ Frequency(stream, u) > Frequency(stream, v)
    \/ /\ Frequency(stream, u) = Frequency(stream, v)
       /\ FirstMet(stream, u) < FirstMet(stream, v)

Vocabulary(stream) == {stream[k] : k \in 1..Len(stream)}

IsTopWords(list, stream, top_n) ==
    /\ Len(list) = Min(top_n, Cardinality(Vocabulary(stream)))
    /\ \A k \in 1..Len(list) :
          /\ list[k].word \in Vocabulary(stream)
          /\ list[k].freq = Frequency(stream, list[k].word)
    /\ \A k, l \in 1..Len(list) :
          k < l => RanksBefore(stream, list[k].word, list[l].word)
    /\ \A w \in Vocabulary(stream) \ {list[k].word : k \in 1..Len(list)} :
          \A k \in 1..Len(list) : RanksBefore(stream, list[k].word, w)

C2_TopWordsAreTheMostCommon ==
    resp.op = "top_words" =>
        /\ IsDict(resp.result)
        /\ DictKeys(resp.result) =
              {Category(resp.rows[i].status) : i \in 1..Len(resp.rows)} \ {Empty}
        /\ \A c \in DictKeys(resp.result) :
              /\ Len(DictGet(resp.result, c)) <= resp.params[1]
              /\ IsTopWords(DictGet(resp.result, c), WordStream(resp.rows, c, 1),
                            resp.params[1])

\* top_n = 2 cuts a category of three words, two of them of equal count
\* that are split over two rows.
C2_Witness ==
    /\ resp.op = "top_words"
    /\ resp.params = <<2>>
    /\ \E c \in DictKeys(resp.result) :
          /\ Cardinality(Vocabulary(WordStream(resp.rows, c, 1))) = 3
          /\ Len(DictGet(resp.result, c)) = 2
          /\ DictGet(resp.result, c)[1].freq = DictGet(resp.result, c)[2].freq
          /\ Cardinality({i \in 1..Len(resp.rows) : Category(resp.rows[i].status) = c}) = 2

(***************************************************************************)
(* C3.  Each value of length_stats_per_category is the median of the       *)
(* category's surviving word counts: the middle one of an odd number, the  *)
(* mean of the two middle ones of an even number; so an integer or an      *)
(* integer and a half.                                                     *)
(***************************************************************************)
\* The rows of category c whose word count survives the outlier filter.
Surviving(rows, c) ==
    {i \in 1..Len(rows) :
        /\ Category(rows[i].status) = c
        /\ WordCount(rows[i].clean_statement) \in 1..OutlierThreshold}

\* The k-th smallest word count among the rows I.
RankedCount(rows, I, k) ==
    CHOOSE v \in {WordCount(rows[i].clean_statement) : i \in I} :
        /\ Cardinality({i \in I : WordCount(rows[i].clean_statement) < v}) < k
        /\ k <= Cardinality({i \in I : WordCount(rows[i].clean_statement) <= v})

\* The median of the word counts of the rows I, in hundredths.
MedianHundredths(rows, I) ==
    LET m == Cardinality(I)
    IN  IF m % 2 = 1
        THEN 100 * RankedCount(rows, I, (m + 1) \div 2)
        ELSE 50 * (RankedCount(rows, I, m \div 2) + RankedCount(rows, I, m \div 2 + 1))

Qualifying(table) ==
    {r \in table : /\ r.status \notin {None, Empty}
                   /\ r.clean_statement \notin {None, Empty}}

\* The word counts of category c that lie in 1..threshold, each with the
\* id of its row.
CountsInRange(table, c) ==
    {p \in {<<r.id, WordCount(r.clean_statement)>> :
                r \in {q \in Qualifying(table) : Category(q.status) = c}} :
        p[2] >= 1 /\ p[2] <= OutlierThreshold}

\* The k-th smallest count of a set of <<id, count>> pairs.
RankedOf(counts, k) ==
    CHOOSE v \in {p[2] : p \in counts} :
        /\ Cardinality({p \in counts : p[2] < v}) < k
        /\ k <= Cardinality({p \in counts : p[2] <= v})

MedianOfCounts(counts) ==
    LET m == Cardinality(counts)
    IN  IF m % 2 = 1
        THEN 100 * RankedOf(counts, (m + 1) \div 2)
        ELSE 50 * (RankedOf(counts, m \div 2) + RankedOf(counts, m \div 2 + 1))

C4_OutliersNeverContribute ==
    resp.op = "length_stats" =>
        /\ DictKeys(resp.result) =
              {c \in {Category(r.status) : r \in Qualifying(db)} \ {Empty} :
                  CountsInRange(db, c) # {}}
        /\ \A c \in DictKeys(resp.result) :
              DictGet(resp.result, c) = MedianOfCounts(CountsInRange(db, c))

\* A category with a row of 400 words and a row of 401: its median is 400.
\* Another category with a text of no words only: it is left out.
C4_Witness ==
    /\ resp.op = "length_stats"
    /\ \E r \in db : r.status = StatusA /\ WordCount(r.clean_statement) = OutlierThreshold
    /\ \E r \in db : r.status = StatusA /\ WordCount(r.clean_statement) = OutlierThreshold + 1
    /\ \E r \in db : r.status = StatusB /\ WordCount(r.clean_statement) = 0
    /\ DictKeys(resp.result) = {StatusA}
    /\ DictGet(resp.result, StatusA) = 100 * OutlierThreshold

(***************************************************************************)
(* C5.  examples_by_category returns the texts of the first min(n, k)      *)
(* records, by ascending id, of the k records whose stored status is the   *)
(* given string exactly and whose clean_statement is neither null nor      *)
(* empty; no record of that status gives the empty sequence, not an error. *)
(***************************************************************************)
ExactMatches(table, status) ==
    {r \in table : r.status = status /\ r.clean_statement \notin {None, Empty}}

C5_ExamplesAreTheFirstByIdOfTheExactStatus ==
    resp.op = "examples" =>
        LET M == ExactMatches(db, resp.params[1])
        IN  /\ Len(resp.result) = Min(resp.params[2], Cardinality(M))
            /\ \A i \in 1..Len(resp.result) :
                  \E r \in M : /\ Cardinality({q \in M : q.id < r.id}) = i - 1
                               /\ resp.result[i] = r.clean_statement

\* n = 1 of two matching records, while a record of the same category
\* under a padded status has a lower id and another text.
C5_Witness ==
    /\ resp.op = "examples"
    /\ resp.params[2] = 1
    /\ Cardinality(ExactMatches(db, resp.params[1])) = 2
    /\ \E r \in db : /\ r.status \notin {None, resp.params[1]}
                     /\ Strip(r.status) = Strip(resp.params[1])
                     /\ r.clean_statement \notin {None, Empty}
                     /\ \A q \in ExactMatches(db, resp.params[1]) :
                           r.id < q.id /\ r.clean_statement # q.clean_statement
    /\ Len(resp.result) = 1

(***************************************************************************)
(* C6.  As claimed: the output of top_words_per_category never maps a      *)
(* category to an empty word list.                                         *)
(***************************************************************************)
C6_NoEmptyWordList ==
    resp.op = "top_words" =>
        \A c \in DictKeys(resp.result) : DictGet(resp.result, c) # <<>>

(***************************************************************************)
(* C6, amended.  A category is in the output of top_words_per_category iff *)
(* it has a qualifying text (a row of non-empty status and non-null,       *)
(* non-empty clean_statement); its word list is empty iff none of its      *)
(* qualifying texts holds a word that is kept.                             *)
(***************************************************************************)
C6_AbsentIffNoQualifyingText ==
    resp.op = "top_words" =>
        /\ DictKeys(resp.result) = {Category(r.status) : r \in Qualifying(db)} \ {Empty}
        /\ \A c \in DictKeys(resp.result) :
              (DictGet(resp.result, c) = <<>>) <=>
                  \A r \in Qualifying(db) :
                      Category(r.status) = c =>
                          KeptPositions(WORD_RE_findall(Lower(r.clean_statement))) = {}

\* A category all of whose texts are stopwords, next to one with words.
C6_Witness ==
    /\ resp.op = "top_words"
    /\ \E c \in DictKeys(resp.result) : DictGet(resp.result, c) = <<>>
    /\ \E c \in DictKeys(resp.result) : DictGet(resp.result, c) # <<>>

(***************************************************************************)
(* C7.  Serving a GET again with the same parameters against the same      *)
(* table gives the same result (the same mapping, the same lists in the    *)
(* same order), whatever order the store returns the rows in.              *)
(***************************************************************************)
SameResult(op, r1, r2) ==
    IF IsAggregate(op) THEN SameMapping(r1, r2) ELSE r1 = r2

C7_RepeatedGetIsIdentical ==
    [][(/\ resp.op # "none"
        /\ resp'.op = resp.op
        /\ resp'.params = resp.params
        /\ db' = db) => SameResult(resp.op, resp.result, resp'.result)]_vars

(***************************************************************************)
(* C8.  The stopword filter inside top_words_per_category yields a         *)
(* subsequence of its input in the original order, holding exactly the     *)
(* words that are no stopword and longer than two characters, every        *)
(* occurrence of a kept word included.                                     *)
(***************************************************************************)
C8_FilterKeepsOrderAndOccurrences ==
    resp.op = "top_words" =>
        \A i \in 1..Len(resp.rows) :
            LET words == WORD_RE_findall(Lower(resp.rows[i].clean_statement))
            IN  FilterWords(words) = KeptOf(words)

\* A text with a dropped word between kept ones, and a text in which a
\* kept word occurs twice.
C8_Witness ==
    /\ resp.op = "top_words"
    /\ \E i \in 1..Len(resp.rows) :
          LET words == WORD_RE_findall(Lower(resp.rows[i].clean_statement))
          IN  \E j \in 1..Len(words) :
                 /\ j \notin KeptPositions(words)
                 /\ \E k \in KeptPositions(words) : k < j
                 /\ \E k \in KeptPositions(words) : k > j
    /\ \E i \in 1..Len(resp.rows) :
          LET kept == FilterWords(WORD_RE_findall(Lower(resp.rows[i].clean_statement)))
          IN  \E j, k \in 1..Len(kept) : j < k /\ kept[j] = kept[k]

(***************************************************************************)
(* C9.  read_response_by_id returns the record of the given id when there  *)
(* is one, and otherwise ends in a 404 whose message embeds the id; never  *)
(* a record of another id, never a 404 for an id that exists.              *)
(***************************************************************************)
\* int(digits), for a string of decimal digits
RECURSIVE ParseNat(_)
ParseNat(digits) ==
    IF digits = <<>> THEN 0
    ELSE 10 * ParseNat(SubSeq(digits, 1, Len(digits) - 1))
         + (CHOOSE d \in 0..9 : DigitChars[d + 1] = digits[Len(digits)])

IsNumeral(text) ==
    /\ text # <<>>
    /\ \A i \in 1..Len(text) : \E d \in 0..9 : DigitChars[d + 1] = text[i]

\* The message holds the decimal numeral of id between its fixed parts.
Embeds(detail, id) ==
    LET numeral == SubSeq(detail, Len(DetailPrefix) + 1, Len(detail) - Len(DetailSuffix))
    IN  /\ SubSeq(detail, 1, Len(DetailPrefix)) = DetailPrefix
        /\ SubSeq(detail, Len(detail) - Len(DetailSuffix) + 1, Len(detail)) = DetailSuffix
        /\ IF id < 0
           THEN /\ Head(numeral) = "-"
                /\ IsNumeral(Tail(numeral))
                /\ ParseNat(Tail(numeral)) = -id
           ELSE IsNumeral(numeral) /\ ParseNat(numeral) = id

C9_RecordOrNotFound ==
    resp.op = "response_by_id" =>
        IF \E r \in db : r.id = resp.params[1]
        THEN /\ resp.result.kind = "return"
             /\ resp.result.obj \in db
             /\ resp.result.obj.id = resp.params[1]
        ELSE /\ resp.result.kind = "HTTPException"
             /\ resp.result.status_code = 404
             /\ Embeds(resp.result.detail, resp.params[1])

\* An id of two digits that no row of a table of several rows has.
C9_Witness ==
    /\ resp.op = "response_by_id"
    /\ resp.params[1] >= 10
    /\ Cardinality(db) >= 2
    /\ resp.result.kind = "HTTPException"

(***************************************************************************)
(* C10.  Against the same table the key sets of the three aggregate        *)
(* endpoints are nested: every key of length-stats is a key of top-words,  *)
(* every key of top-words is a key of the distribution; every key is       *)
(* trimmed and not empty.                                                  *)
(***************************************************************************)
\* The categories of the table: the trimmed, non-empty statuses.
StatusCategories(table) == {Category(r.status) : r \in table} \ {Empty}

\* The categories that have a qualifying text.
TextCategories(table) == {Category(r.status) : r \in Qualifying(table)} \ {Empty}

\* Each endpoint's keys lie between the two sets of categories, which are
\* nested themselves; so length-stats <= top-words <= distribution.
C10_KeySetsAreNested ==
    /\ TextCategories(db) \subseteq StatusCategories(db)
    /\ resp.op = "length_stats" => DictKeys(resp.result) \subseteq TextCategories(db)
    /\ resp.op = "top_words" =>
          /\ TextCategories(db) \subseteq DictKeys(resp.result)
          /\ DictKeys(resp.result) \subseteq StatusCategories(db)
    /\ resp.op = "distribution" => StatusCategories(db) \subseteq DictKeys(resp.result)
    /\ IsAggregate(resp.op) =>
          \A c \in DictKeys(resp.result) : c # Empty /\ Strip(c) = c

\* A table to which the three endpoints give three different key sets:
\* a status is stored padded, a category has rows but no text, and a
\* category has a text of no words.
C10_Witness ==
    /\ resp.op = "top_words"
    /\ DictKeys(resp.result) # StatusCategories(db)
    /\ \E c \in DictKeys(resp.result) :
          \A i \in 1..Len(resp.rows) :
              Category(resp.rows[i].status) = c => WordCount(resp.rows[i].clean_statement) = 0
    /\ \E r \in db : r.status \notin {None, Empty} /\ Strip(r.status) # r.status

====
